---- MODULE Spec2Model ----
(***************************************************************************)
(* A model of the stump logging library (src/src/lib.rs): the level gate   *)
(* of the debug!/info!/warn!/error! macros, the output override, and the   *)
(* completion-line formatter format_complete.                              *)
(*                                                                         *)
(* A string is a sequence of characters.  A character is a token: a        *)
(* one-letter token is the ASCII character itself, a longer token names a  *)
(* single non-ASCII character (Utf8Len gives its encoded length) or an     *)
(* opaque piece of text whose content no operation inspects.               *)
(***************************************************************************)
EXTENDS Integers, Sequences, FiniteSets, TLC

VARIABLES
    MIN_LOG_LEVEL,    \* static mut MIN_LOG_LEVEL
    IS_VERBOSE,       \* static mut IS_VERBOSE
    PRINT,            \* static mut PRINT: "None" or the installed callback
    env,              \* the level environment variable of the process
    termsize,         \* what termsize::get() answers
    overflow_checks,  \* build profile: are integer overflow checks compiled in
    call,             \* the most recent operation and its arguments
    ret,              \* what that operation returned (or that it panicked)
    writes            \* the writes that operation made, in order

vars == <<MIN_LOG_LEVEL, IS_VERBOSE, PRINT, env, termsize, overflow_checks,
          call, ret, writes>>

---------------------------------------------------------------------------
(* Characters and strings *)

Lower == <<"a","b","c","d","e","f","g","h","i","j","k","l","m",
           "n","o","p","q","r","s","t","u","v","w","x","y","z">>
Upper == <<"A","B","C","D","E","F","G","H","I","J","K","L","M",
           "N","O","P","Q","R","S","T","U","V","W","X","Y","Z">>

\* Encoded length of a character in bytes (str::len counts these).
NonAscii == {"dotless_i", "sharp_s", "e_acute", "E_acute", "euro", "g_clef"}

Utf8Len(c) ==
    IF c \notin NonAscii THEN 1
    ELSE CASE c = "euro" -> 3
           [] c = "g_clef" -> 4
           [] OTHER -> 2

\* char::to_uppercase: the Unicode upper-case mapping of one character,
\* which may be more than one character long.
to_uppercase_char(c) ==
    IF \E i \in DOMAIN Lower : Lower[i] = c
    THEN <<Upper[CHOOSE i \in DOMAIN Lower : Lower[i] = c]>>
    ELSE CASE c = "dotless_i" -> <<"I">>
           [] c = "sharp_s" -> <<"S", "S">>
           [] c = "e_acute" -> <<"E_acute">>
           [] OTHER -> <<c>>

\* str::to_uppercase
to_uppercase(s) ==
    LET up[i \in 0..Len(s)] ==
            IF i = 0 THEN <<>> ELSE up[i - 1] \o to_uppercase_char(s[i])
    IN up[Len(s)]

\* str::len: the length in bytes
RECURSIVE BytesFrom(_, _)
BytesFrom(s, k) == IF k > Len(s) THEN 0 ELSE Utf8Len(s[k]) + BytesFrom(s, k + 1)
ByteLen(s) == BytesFrom(s, 1)

Spaces(n) == [i \in 1..n |-> " "]

---------------------------------------------------------------------------
(* LogEntryLevel *)

LogEntryLevel == {"ERROR", "WARN", "INFO", "DEBUG"}

\* The enum's discriminants; the derived Ord compares them.
Discriminant(level) ==
    CASE level = "ERROR" -> 0
      [] level = "WARN" -> 1
      [] level = "INFO" -> 2
      [] level = "DEBUG" -> 3

\* The derived Debug rendering of a level ({:?}).
LevelName(level) ==
    CASE level = "ERROR" -> <<"E","R","R","O","R">>
      [] level = "WARN" -> <<"W","A","R","N">>
      [] level = "INFO" -> <<"I","N","F","O">>
      [] level = "DEBUG" -> <<"D","E","B","U","G">>

Ok(level) == [kind |-> "Ok", level |-> level, str |-> <<>>, flag |-> FALSE]
Err(msg) == [kind |-> "Err", level |-> "", str |-> msg, flag |-> FALSE]

InvalidLogLevel ==
    <<"I","n","v","a","l","i","d"," ","l","o","g"," ","l","e","v","e","l",":"," ">>

\* from_string without the to_uppercase: only the exact names match.
from_string_exact(s) ==
    IF \E l \in LogEntryLevel : LevelName(l) = s
    THEN Ok(CHOOSE l \in LogEntryLevel : LevelName(l) = s)
    ELSE Err(InvalidLogLevel \o s)

\* LogEntryLevel::from_string
from_string(s) ==
    LET u == to_uppercase(s) IN
    CASE u = <<"D","E","B","U","G">> -> Ok("DEBUG")
      [] u = <<"I","N","F","O">> -> Ok("INFO")
      [] u = <<"W","A","R","N">> -> Ok("WARN")
      [] u = <<"E","R","R","O","R">> -> Ok("ERROR")
      [] OTHER -> Err(InvalidLogLevel \o s)

\* The level environment variable: unset, set to text that is not valid
\* Unicode, or set to a string.
EnvUnset == [kind |-> "unset", val |-> <<>>]
EnvNotUnicode == [kind |-> "not_unicode", val |-> <<>>]
EnvString(s) == [kind |-> "string", val |-> s]

\* std::env::var: Ok(value) only for a variable that is set to valid Unicode.
env_var ==
    IF env.kind = "string"
    THEN [kind |-> "Ok", level |-> "", str |-> env.val, flag |-> FALSE]
    ELSE Err(<<>>)

\* from_env that never looks at the environment.
from_env_programmatic == Ok(MIN_LOG_LEVEL)

\* LogEntryLevel::from_env
from_env ==
    LET e == env_var IN
    IF e.kind = "Ok" THEN from_string(e.str) ELSE Ok(MIN_LOG_LEVEL)

---------------------------------------------------------------------------
(* Results and writes *)

Unit == [kind |-> "unit", level |-> "", str |-> <<>>, flag |-> FALSE]
Panic == [kind |-> "panic", level |-> "", str |-> <<>>, flag |-> FALSE]
Str(s) == [kind |-> "String", level |-> "", str |-> s, flag |-> FALSE]
Bool(b) == [kind |-> "bool", level |-> "", str |-> <<>>, flag |-> b]
Level(l) == [kind |-> "level", level |-> l, str |-> <<>>, flag |-> FALSE]

Write(sink, text) == [sink |-> sink, text |-> text]

\* println! and eprintln! end the line.
println(s) == <<Write("stdout", s \o <<"LF">>)>>
eprintln(s) == <<Write("stderr", s \o <<"LF">>)>>

\* do_println: the writes it makes
do_println(s) ==
    IF PRINT # "None" THEN <<Write(PRINT, s)>> ELSE println(s)

\* format_datetime: the formatted local time (opaque) and a space
format_datetime == <<"DATETIME", " ">>

\* status!: the writes it makes
status(level, msg) ==
    println(format_datetime \o <<" ">> \o LevelName(level)
            \o <<" ", "FILE", ":", "LINE", " ">> \o msg)

\* The comparison turned around.
at_or_above_reversed(min_log_level, level) ==
    Discriminant(min_log_level) <= Discriminant(level)

\* min_log_level >= $level, by the derived Ord
at_or_above(min_log_level, level) ==
    Discriminant(min_log_level) >= Discriminant(level)

\* The gate falling back to the programmatic minimum on a bad variable.
status_at_or_above_fallback(level, msg) ==
    LET r == from_env
        m == IF r.kind = "Ok" THEN r.level ELSE MIN_LOG_LEVEL
    IN IF at_or_above(m, level) THEN status(level, msg) ELSE <<>>

\* status_at_or_above!: the writes it makes
status_at_or_above(level, msg) ==
    LET r == from_env IN
    IF r.kind = "Ok" /\ at_or_above(r.level, level)
    THEN status(level, msg)
    ELSE <<>>

---------------------------------------------------------------------------
(* The completion line *)

CompleteStatus == {"OK", "WARN", "FAIL"}

DefaultWidth == 88
LabelField == 80
TagWidth == 8

EscapeCodes == {"ESC[32m", "ESC[33m", "ESC[31m", "ESC[0m"}

\* The text without the colour escape codes.
Visible(s) == SelectSeq(s, LAMBDA c : c \notin EscapeCodes)

\* "DONE".green(), "WARN".yellow(), "FAIL".red(), as rendered when colours
\* are on; Visible gives the text either way
Colored(st) ==
    CASE st = "OK" -> <<"ESC[32m", "D","O","N","E", "ESC[0m">>
      [] st = "WARN" -> <<"ESC[33m", "W","A","R","N", "ESC[0m">>
      [] st = "FAIL" -> <<"ESC[31m", "F","A","I","L", "ESC[0m">>

\* usize arithmetic is modulo 2^32 or 2^64 on the targets Rust builds for.
\* TLC's integers end below 2^31, so the model wraps at 2^30: the one
\* wrapped value the code computes is only compared with a string's length,
\* which is far below any of the three.
UsizeModulus == 2^30

\* a - b in usize without overflow checks: wraps around
wrapping_sub(a, b) == (a - b) % UsizeModulus

\* Walks s from character k (acc bytes in): the number of characters that
\* end exactly at byte n, or -1 when byte n is inside a character or past
\* the end.
RECURSIVE CharsUpTo(_, _, _, _)
CharsUpTo(s, n, k, acc) ==
    IF acc = n THEN k
    ELSE IF acc > n \/ k = Len(s) THEN -1
    ELSE CharsUpTo(s, n, k + 1, acc + Utf8Len(s[k + 1]))

\* str::is_char_boundary
is_char_boundary(s, n) == CharsUpTo(s, n, 0, 0) # -1

\* &s[0..n] for n on a character boundary
SliceTo(s, n) == SubSeq(s, 1, CharsUpTo(s, n, 0, 0))

\* A label field one column short.
pad_left_short(s) ==
    IF Len(s) < LabelField - 1 THEN s \o Spaces(LabelField - 1 - Len(s)) ELSE s

\* format!("{: <80}", s): pads on the right to 80 characters, never cuts
pad_left(s) ==
    IF Len(s) < LabelField THEN s \o Spaces(LabelField - Len(s)) ELSE s

\* The width format_complete works with.
Width ==
    IF termsize.some /\ termsize.cols < DefaultWidth
    THEN termsize.cols
    ELSE DefaultWidth

\* format_complete
format_complete(file_base_name, st) ==
    LET width == Width
        formatted == pad_left(file_base_name)
        tag == <<"[", " ">> \o Colored(st) \o <<" ", "]">>
    IN IF width < TagWidth /\ overflow_checks
       THEN Panic                           \* width as usize - 8 overflows
       ELSE LET limit == wrapping_sub(width, TagWidth) IN
            IF ByteLen(formatted) > limit
            THEN IF is_char_boundary(formatted, limit)
                 THEN Str(SliceTo(formatted, limit) \o tag)
                 ELSE Panic                 \* slice inside a character
            ELSE Str(formatted \o tag)

---------------------------------------------------------------------------
(* The state machine: one action per public function or macro *)

Callbacks == {"f1", "f2"}

\* The payload of a log call; its content is never inspected.
Msg == <<"m","s","g">>

Call(op, level, label, st) ==
    [op |-> op, level |-> level, label |-> label, status |-> st]

NoCall == Call("none", "", <<>>, "")

\* A panic ends the program: nothing runs after it.
Running == ret.kind # "panic"

Config == <<MIN_LOG_LEVEL, IS_VERBOSE, PRINT, env, termsize, overflow_checks>>

Returns(c, r, w) == call' = c /\ ret' = r /\ writes' = w

set_print(f) ==
    /\ Running
    /\ PRINT' = f
    /\ Returns(Call("set_print", "", <<>>, ""), Unit, <<>>)
    /\ UNCHANGED <<MIN_LOG_LEVEL, IS_VERBOSE, env, termsize, overflow_checks>>

set_verbose(v) ==
    /\ Running
    /\ IS_VERBOSE' = v
    /\ Returns(Call("set_verbose", "", <<>>, ""), Unit, <<>>)
    /\ UNCHANGED <<MIN_LOG_LEVEL, PRINT, env, termsize, overflow_checks>>

is_verbose ==
    /\ Running
    /\ Returns(Call("is_verbose", "", <<>>, ""), Bool(IS_VERBOSE), <<>>)
    /\ UNCHANGED Config

set_min_log_level(min_log_level) ==
    /\ Running
    /\ MIN_LOG_LEVEL' = min_log_level
    /\ Returns(Call("set_min_log_level", min_log_level, <<>>, ""), Unit, <<>>)
    /\ UNCHANGED <<IS_VERBOSE, PRINT, env, termsize, overflow_checks>>

get_min_log_level ==
    /\ Running
    /\ Returns(Call("get_min_log_level", "", <<>>, ""), Level(MIN_LOG_LEVEL), <<>>)
    /\ UNCHANGED Config

\* A call of LogEntryLevel::from_string
FromString(s) ==
    /\ Running
    /\ Returns(Call("from_string", "", s, ""), from_string(s), <<>>)
    /\ UNCHANGED Config

\* A call of LogEntryLevel::from_env
FromEnv ==
    /\ Running
    /\ Returns(Call("from_env", "", <<>>, ""), from_env, <<>>)
    /\ UNCHANGED Config

\* debug!, info!, warn!, error!: status_at_or_above! at the macro's level
debug ==
    /\ Running
    /\ Returns(Call("debug", "DEBUG", Msg, ""), Unit,
               status_at_or_above("DEBUG", Msg))
    /\ UNCHANGED Config

info ==
    /\ Running
    /\ Returns(Call("info", "INFO", Msg, ""), Unit,
               status_at_or_above("INFO", Msg))
    /\ UNCHANGED Config

warn ==
    /\ Running
    /\ Returns(Call("warn", "WARN", Msg, ""), Unit,
               status_at_or_above("WARN", Msg))
    /\ UNCHANGED Config

error ==
    /\ Running
    /\ Returns(Call("error", "ERROR", Msg, ""), Unit,
               status_at_or_above("ERROR", Msg))
    /\ UNCHANGED Config

VerboseLine == format_datetime \o <<" ", "FILE", ":", "LINE", " ">> \o Msg

vprintln ==
    /\ Running
    /\ Returns(Call("vprintln", "", Msg, ""), Unit,
               IF IS_VERBOSE THEN do_println(VerboseLine) ELSE <<>>)
    /\ UNCHANGED Config

veprintln ==
    /\ Running
    /\ Returns(Call("veprintln", "", Msg, ""), Unit,
               IF IS_VERBOSE THEN eprintln(VerboseLine) ELSE <<>>)
    /\ UNCHANGED Config

\* format_done, format_warn, format_fail: format_complete at their status
format_done(label) ==
    /\ Running
    /\ Returns(Call("format_done", "", label, "OK"),
               format_complete(label, "OK"), <<>>)
    /\ UNCHANGED Config

format_warn(label) ==
    /\ Running
    /\ Returns(Call("format_warn", "", label, "WARN"),
               format_complete(label, "WARN"), <<>>)
    /\ UNCHANGED Config

format_fail(label) ==
    /\ Running
    /\ Returns(Call("format_fail", "", label, "FAIL"),
               format_complete(label, "FAIL"), <<>>)
    /\ UNCHANGED Config

\* do_println(&format_complete(..)): a panic in format_complete unwinds
\* before do_println is reached
PrintRet(line) == IF line.kind = "panic" THEN Panic ELSE Unit
PrintWrites(line) == IF line.kind = "panic" THEN <<>> ELSE do_println(line.str)

print_done(label) ==
    LET line == format_complete(label, "OK") IN
    /\ Running
    /\ Returns(Call("print_done", "", label, "OK"),
               PrintRet(line), PrintWrites(line))
    /\ UNCHANGED Config

print_warn(label) ==
    LET line == format_complete(label, "WARN") IN
    /\ Running
    /\ Returns(Call("print_warn", "", label, "WARN"),
               PrintRet(line), PrintWrites(line))
    /\ UNCHANGED Config

print_fail(label) ==
    LET line == format_complete(label, "FAIL") IN
    /\ Running
    /\ Returns(Call("print_fail", "", label, "FAIL"),
               PrintRet(line), PrintWrites(line))
    /\ UNCHANGED Config

print_complete(label, st) ==
    LET line == format_complete(label, st) IN
    /\ Running
    /\ Returns(Call("print_complete", "", label, st),
               PrintRet(line), PrintWrites(line))
    /\ UNCHANGED Config

Experimental ==
    <<"ESC[31m", "Experimental Code!", "ESC[0m",
      " - Results may vary, bugs will be present, and not all functionality has been implemented">>

print_experimental ==
    /\ Running
    /\ Returns(Call("print_experimental", "", <<>>, ""), Unit,
               do_println(Experimental))
    /\ UNCHANGED Config

(* The environment of the process *)

\* std::env::set_var / remove_var on the level variable, by the program or
\* by whoever started it
SetEnv(e) ==
    /\ Running
    /\ env' = e
    /\ Returns(Call("set_env", "", e.val, ""), Unit, <<>>)
    /\ UNCHANGED <<MIN_LOG_LEVEL, IS_VERBOSE, PRINT, termsize, overflow_checks>>

\* The terminal is resized, attached or detached.
Resize(t) ==
    /\ Running
    /\ termsize' = t
    /\ Returns(Call("resize", "", <<>>, ""), Unit, <<>>)
    /\ UNCHANGED <<MIN_LOG_LEVEL, IS_VERBOSE, PRINT, env, overflow_checks>>

---------------------------------------------------------------------------
(* Inputs and specifications *)

NoTerm == [some |-> FALSE, cols |-> 0]
Term(c) == [some |-> TRUE, cols |-> c]

Ascii(n) == [i \in 1..n |-> "a"]
Task == <<"t","a","s","k">>
BuildProject == <<"B","u","i","l","d"," ","p","r","o","j","e","c","t">>

\* Values of the level variable: unset, not Unicode, the four names in
\* various letter-cases, and strings that name no level.
EnvValues ==
    {EnvUnset, EnvNotUnicode}
    \cup {EnvString(s) : s \in {<<"D","E","B","U","G">>, <<"i","n","f","o">>,
                                <<"W","a","r","n">>, <<"e","R","R","O","R">>,
                                <<"T","R","A","C","E">>, <<"W","A","R","N"," ">>}}

SpecTerms == {NoTerm, Term(5)}
SpecLabels == {Task}

InitBase ==
    /\ MIN_LOG_LEVEL = "WARN"
    /\ IS_VERBOSE = FALSE
    /\ PRINT = "None"
    /\ call = NoCall
    /\ ret = Unit
    /\ writes = <<>>

\* The library in a program: any environment, any terminal, either build.
Init ==
    /\ InitBase
    /\ env \in EnvValues
    /\ termsize \in SpecTerms
    /\ overflow_checks \in BOOLEAN

Next ==
    \/ \E f \in Callbacks : set_print(f)
    \/ \E v \in BOOLEAN : set_verbose(v)
    \/ is_verbose
    \/ \E l \in LogEntryLevel : set_min_log_level(l)
    \/ get_min_log_level
    \/ \E e \in EnvValues : e.kind = "string" /\ FromString(e.val)
    \/ FromEnv
    \/ debug
    \/ info
    \/ warn
    \/ error
    \/ vprintln
    \/ veprintln
    \/ \E label \in SpecLabels : format_done(label)
    \/ \E label \in SpecLabels : format_warn(label)
    \/ \E label \in SpecLabels : format_fail(label)
    \/ \E label \in SpecLabels : print_done(label)
    \/ \E label \in SpecLabels : print_warn(label)
    \/ \E label \in SpecLabels : print_fail(label)
    \/ \E label \in SpecLabels, st \in CompleteStatus : print_complete(label, st)
    \/ print_experimental
    \/ \E e \in EnvValues : SetEnv(e)
    \/ \E t \in SpecTerms : Resize(t)

Spec == Init /\ [][Next]_vars

(* format_done, format_warn, format_fail as pure functions of the label, the
   terminal and the build: one call from each initial state *)

MaxCols == 90
MaxLabelLen == 82

Terms == {NoTerm} \cup {Term(c) : c \in 0..MaxCols}

MultiByte == {"e_acute", "euro", "g_clef"}

\* ASCII labels of every length, labels ending in a character of 2, 3 or 4
\* bytes, and the label of the documented example.
Labels ==
    {Ascii(n) : n \in 0..MaxLabelLen}
    \cup {Ascii(n) \o <<c>> : n \in 0..(MaxLabelLen - 1), c \in MultiByte}
    \cup {BuildProject}

InitFormat ==
    /\ InitBase
    /\ env = EnvUnset
    /\ termsize \in Terms
    /\ overflow_checks \in BOOLEAN

NextFormat ==
    \/ call.op = "none" /\ \E label \in Labels : format_done(label)
    \/ call.op = "none" /\ \E label \in Labels : format_warn(label)
    \/ call.op = "none" /\ \E label \in Labels : format_fail(label)

SpecFormat == InitFormat /\ [][NextFormat]_vars

(* LogEntryLevel::from_string as a pure function: one call from the initial
   state *)

MaxPad == 1

\* The characters that are letter C in some letter-case.  Unicode has two
\* lower-case forms of I: i and the dotless i.
CaseForms(C) ==
    {C} \cup {Lower[i] : i \in {j \in DOMAIN Upper : Upper[j] = C}}
        \cup (IF C = "I" THEN {"dotless_i"} ELSE {})

\* Is s the string name in some letter-case?
IsCaseVariant(s, name) ==
    /\ Len(s) = Len(name)
    /\ \A i \in 1..Len(name) : s[i] \in CaseForms(name[i])

RECURSIVE CaseVariants(_)
CaseVariants(name) ==
    IF name = <<>> THEN {<<>>}
    ELSE {<<c>> \o r : c \in CaseForms(Head(name)), r \in CaseVariants(Tail(name))}

\* Every letter-case of every level name, bare and with up to MaxPad spaces
\* on either side; and strings that are no level name.
ParseInputs ==
    LET variants == UNION {CaseVariants(LevelName(l)) : l \in LogEntryLevel}
    IN {Spaces(j) \o v \o Spaces(k) : v \in variants, j \in 0..MaxPad, k \in 0..MaxPad}
       \cup {<<>>, <<" ">>, <<"T","R","A","C","E">>, <<"D","E","B","U">>,
             <<"W","A","R","N","I","N","G">>, <<"E","R","R">>,
             <<"d","e_acute","b","u","g">>, <<"w","a","r","n","sharp_s">>,
             <<"euro">>, <<"I","N","F","0">>}

InitParse ==
    /\ InitBase
    /\ env = EnvUnset
    /\ termsize = NoTerm
    /\ overflow_checks \in BOOLEAN

NextParse ==
    /\ call.op = "none"
    /\ \E s \in ParseInputs : FromString(s)

SpecParse == InitParse /\ [][NextParse]_vars

---------------------------------------------------------------------------
(* The claims *)

LogOps == {"debug", "info", "warn", "error"}
PrintOps == {"print_done", "print_warn", "print_fail", "print_complete"}
FormatOps == {"format_done", "format_warn", "format_fail"}

\* The order of the levels by severity: DEBUG < INFO < WARN < ERROR.
SeverityRank(level) ==
    CASE level = "DEBUG" -> 0
      [] level = "INFO" -> 1
      [] level = "WARN" -> 2
      [] level = "ERROR" -> 3

Emitted == writes # <<>>

\* The line a log call at the given level prints.
StatusLine(level) ==
    <<"DATETIME", " ", " ">> \o LevelName(level)
        \o <<" ", "FILE", ":", "LINE", " ">> \o Msg \o <<"LF">>

\* The levels the gate lets through under minimum M.
EmittedLevels(M) == {C \in LogEntryLevel : at_or_above(M, C)}

\* C1: with the level variable unset, a gated log call at level C emits a
\* line iff C is at or above the programmatic minimum M in the order
\* DEBUG < INFO < WARN < ERROR, and raising M strictly shrinks the set of
\* levels that are emitted.
C1_GateByMinimum ==
    /\ (call.op \in LogOps /\ env = EnvUnset) =>
          /\ Emitted <=> SeverityRank(call.level) >= SeverityRank(MIN_LOG_LEVEL)
          /\ Emitted => (Len(writes) = 1 /\ writes[1].text = StatusLine(call.level))
    /\ \A M1, M2 \in LogEntryLevel :
          SeverityRank(M1) < SeverityRank(M2) =>
              /\ EmittedLevels(M2) \subseteq EmittedLevels(M1)
              /\ EmittedLevels(M2) # EmittedLevels(M1)

\* A debug! call suppressed under a minimum of INFO set by the program.
C1_Witness ==
    /\ call.op = "debug"
    /\ env = EnvUnset
    /\ MIN_LOG_LEVEL = "INFO"
    /\ writes = <<>>

IsLevelName(s) == \E l \in LogEntryLevel : IsCaseVariant(s, LevelName(l))
NamedLevel(s) == CHOOSE l \in LogEntryLevel : IsCaseVariant(s, LevelName(l))

\* C2: in every state reached by any sequence of set_min_log_level calls
\* and changes of the level variable, a gated log call decides with the
\* variable's current value when it is a level name, whatever the
\* programmatic minimum, and with the current programmatic minimum when the
\* variable is unset.
C2_EnvDecidesElseMinimum ==
    call.op \in LogOps =>
        /\ (env.kind = "string" /\ IsLevelName(env.val)) =>
              (Emitted <=>
                 SeverityRank(call.level) >= SeverityRank(NamedLevel(env.val)))
        /\ env.kind = "unset" =>
              (Emitted <=> SeverityRank(call.level) >= SeverityRank(MIN_LOG_LEVEL))

\* A debug! call emitted because the variable says debug, against a
\* programmatic minimum of ERROR.
C2_Witness ==
    /\ call.op = "debug"
    /\ env = EnvString(<<"D","E","B","U","G">>)
    /\ MIN_LOG_LEVEL = "ERROR"
    /\ Emitted

InvalidEnv == env.kind = "string" /\ ~IsLevelName(env.val)

\* C3 as stated: with the level variable set to a string that names no
\* level, a gated log call does not raise and emits iff the level passes
\* the gate against the programmatic minimum.
C3_InvalidEnvFallsBack ==
    (call.op \in LogOps /\ InvalidEnv) =>
        /\ ret = Unit
        /\ Emitted <=> SeverityRank(call.level) >= SeverityRank(MIN_LOG_LEVEL)

\* C3 as amended: with the level variable set to a string that names no
\* level, a gated log call does not raise and emits nothing, whatever the
\* programmatic minimum and the level of the call.
C3_InvalidEnvSuppresses ==
    (call.op \in LogOps /\ InvalidEnv) => (ret = Unit /\ writes = <<>>)

\* An error! call under a bad variable: the programmatic minimum would let
\* it through.
C3_Witness ==
    /\ call.op = "error"
    /\ env = EnvString(<<"T","R","A","C","E">>)
    /\ MIN_LOG_LEVEL = "DEBUG"
    /\ ret = Unit
    /\ writes = <<>>

\* C4: with an override installed, every line of a gated log call and of a
\* completion call goes to the override and none to stdout.
C4_SingleFunnel ==
    (PRINT # "None" /\ call.op \in LogOps \cup PrintOps) =>
        \A i \in DOMAIN writes : writes[i].sink = PRINT

\* C9: with an override installed, a print_done, print_warn, print_fail or
\* print_complete call invokes the installed override exactly once, with
\* format_complete(label, status), and writes nothing else.
C9_OverrideCalledOnce ==
    (PRINT # "None" /\ call.op \in PrintOps) =>
        /\ ret = Unit
        /\ Len(writes) = 1
        /\ writes[1].sink = PRINT
        /\ writes[1].text = format_complete(call.label, call.status).str

\* The bracketed status tag as it shows on the terminal.
VisibleTag(st) == Visible(<<"[", " ">> \o Colored(st) \o <<" ", "]">>)

\* C5: on a narrow terminal format_complete returns a string for labels of
\* length 0, 80 and 81 at every width, and when width - 8 <= 0 the result is
\* just the bracketed status tag.
C5_NarrowTerminalClamps ==
    (call.op \in FormatOps /\ call.label \in {Ascii(0), Ascii(80), Ascii(81)}) =>
        /\ ret.kind = "String"
        /\ (termsize.some /\ termsize.cols - 8 <= 0) =>
              Visible(ret.str) = VisibleTag(call.status)

\* The truncation length width - 8, in bytes, is inside a character of the
\* padded label.
CutsInsideCharacter(label) ==
    /\ Width >= 8
    /\ ByteLen(pad_left(label)) > Width - 8
    /\ ~is_char_boundary(pad_left(label), Width - 8)

\* C6: when the truncation length falls inside a multi-byte character of
\* the label, format_complete returns a string (the label cut at a valid
\* boundary) instead of raising.
C6_MultiByteClamps ==
    (call.op \in FormatOps /\ CutsInsideCharacter(call.label)) =>
        ret.kind = "String"

\* C7: on a terminal of 88 columns or more, or of unknown width, the result
\* shows the label padded with spaces to 80 characters (cut to its first 80
\* when longer) and then the tag: 88 visible characters.
C7_WideTerminal ==
    (call.op \in FormatOps /\ (~termsize.some \/ termsize.cols >= 88)) =>
        /\ ret.kind = "String"
        /\ Visible(ret.str) =
              (IF Len(call.label) <= 80
               THEN call.label \o Spaces(80 - Len(call.label))
               ELSE SubSeq(call.label, 1, 80)) \o VisibleTag(call.status)
        /\ Len(Visible(ret.str)) = 88

BuildProjectCall ==
    /\ call.op = "format_done"
    /\ call.label = BuildProject
    /\ termsize = Term(88)

DoneTag == <<"[", " ", "D", "O", "N", "E", " ", "]">>

\* C8 as stated: on an 88-column terminal the completion line of
\* "Build project" with status OK shows the label, 66 spaces and "[ DONE ]",
\* 88 visible characters in all.
C8_BuildProject66 ==
    BuildProjectCall =>
        /\ ret.kind = "String"
        /\ Visible(ret.str) = BuildProject \o Spaces(66) \o DoneTag
        /\ Len(Visible(ret.str)) = 88

\* C8 as amended: on an 88-column terminal the completion line of
\* "Build project" with status OK shows the label, 67 spaces and "[ DONE ]",
\* 88 visible characters in all.
C8_BuildProject67 ==
    BuildProjectCall =>
        /\ ret.kind = "String"
        /\ Visible(ret.str) = BuildProject \o Spaces(67) \o DoneTag
        /\ Len(Visible(ret.str)) = 88

\* format_done("Build project") has returned on an 88-column terminal.
C8_Witness == BuildProjectCall /\ ret.kind = "String"

\* C10: from_string returns the matching level for each of the four names
\* in any letter-case, and for every other string an error that carries the
\* input text unchanged.
C10_ParseLevel ==
    call.op = "from_string" =>
        /\ \A l \in LogEntryLevel :
              IsCaseVariant(call.label, LevelName(l)) => ret = Ok(l)
        /\ ~IsLevelName(call.label) =>
              /\ ret.kind = "Err"
              /\ Len(ret.str) >= Len(call.label)
              /\ SubSeq(ret.str, Len(ret.str) - Len(call.label) + 1, Len(ret.str))
                   = call.label

\* from_string has parsed a mixed-case name.
C10_Witness ==
    /\ call.op = "from_string"
    /\ call.label = <<"d","e","B","u","G">>
    /\ ret = Ok("DEBUG")

====
